---- MODULE Spec2Model ----
(***************************************************************************)
(* Chunk-file merge tools of the text-to-speech converter:                 *)
(*   fixed    - 修复合并工具.py  merge_audio_fixed  (hand-written header,   *)
(*              batches of 100, size fields backpatched at the end)        *)
(*   wav      - 合并音频块.py    merge_wav_files    (wave module, unbatched) *)
(*   fast     - 快速合并工具.py  merge_audio_fast   (wave module, batches   *)
(*              of 50, no format check)                                    *)
(*   large    - txt_to_wav_large_file.py  txt_to_wav_large   (pydub merge) *)
(*   advanced - txt_to_mp3_advanced.py    txt_to_mp3_large_file (pydub)    *)
(* A file is a record; the output is a header (a sequence of fixed-width   *)
(* fields) followed by a payload (a sequence of segments, one per write).  *)
(***************************************************************************)
EXTENDS Integers, Sequences, FiniteSets, TLC

\* ---------------------------------------------------------------- bounds
MaxChunks == 3      \* longest catalog given to a merge
MaxFiles == 3       \* longest directory listing given to the discovery
MaxFaults == 1      \* output-stream I/O errors injected in one run
MaxText == 4        \* longest text given to a chunker
MaxSize == 3        \* largest max_chunk_size given to a chunker
MaxParagraphs == 3  \* most paragraphs in a text built from paragraphs

\* ------------------------------------------------------ program constants
batch_size_fixed == 100
batch_size_fast == 50
silence_large == 300
silence_advanced == 500

Tools == {"fixed", "wav", "fast", "large", "advanced"}
WaveTools == {"wav", "fast"}
BatchedTools == {"fixed", "fast"}
Converters == {"large", "advanced"}

Min(a, b) == IF a < b THEN a ELSE b

\* ------------------------------------------------------------ file names
Prefix == <<"c", "h", "u", "n", "k", "_">>
Suffix == <<".", "w", "a", "v">>

\* a file name matched by the glob pattern chunk_*.wav, star is the part
\* matched by the asterisk
Basename(star) == Prefix \o star \o Suffix

DigitChars == <<"0", "1", "2", "3", "4", "5", "6", "7", "8", "9">>

IsDigit(c) == \E k \in 1..10 : DigitChars[k] = c

DigitVal(c) == (CHOOSE k \in 1..10 : DigitChars[k] = c) - 1

\* str.split(sep): the pieces of s between the occurrences of sep
RECURSIVE split(_, _)
split(s, sep) ==
    IF \A k \in 1..Len(s) : s[k] # sep
    THEN <<s>>
    ELSE LET k == CHOOSE j \in 1..Len(s) :
                      s[j] = sep /\ \A h \in 1..(j - 1) : s[h] # sep
         IN  <<SubSeq(s, 1, k - 1)>> \o split(SubSeq(s, k + 1, Len(s)), sep)

\* int(s) raises ValueError unless s is a non-empty string of decimal digits
IsInt(s) == Len(s) > 0 /\ \A k \in 1..Len(s) : IsDigit(s[k])

RECURSIVE int(_)
int(s) ==
    IF Len(s) = 0 THEN 0
    ELSE int(SubSeq(s, 1, Len(s) - 1)) * 10 + DigitVal(s[Len(s)])

\* the text the sort key is parsed from: basename.split('_')[1].split('.')[0]
KeyText(f) == split(split(f.name, "_")[2], ".")[1]

\* a key that orders the names as strings do: the digits read as a
\* left-aligned number of four places
RECURSIVE PadRight(_, _)
PadRight(s, width) == IF Len(s) >= width THEN s ELSE PadRight(s \o <<"0">>, width)

SortKeyLexical(f) == int(PadRight(KeyText(f), 4))

SortKey(f) == int(KeyText(f))

\* list.sort(key=...) is stable: an element goes after every element whose
\* key is not larger
RECURSIVE InsertByKey(_, _)
InsertByKey(sorted, f) ==
    IF sorted = <<>> THEN <<f>>
    ELSE IF SortKey(f) < SortKey(sorted[Len(sorted)])
         THEN InsertByKey(SubSeq(sorted, 1, Len(sorted) - 1), f)
                  \o <<sorted[Len(sorted)]>>
         ELSE Append(sorted, f)

RECURSIVE SortByKey(_)
SortByKey(files) ==
    IF files = <<>> THEN <<>>
    ELSE InsertByKey(SortByKey(SubSeq(files, 1, Len(files) - 1)),
                     files[Len(files)])

\* f"{i:04d}": the decimal digits of i, zero-padded to at least 4 characters
RECURSIVE Decimal(_)
Decimal(n) ==
    IF n < 10 THEN <<DigitChars[n + 1]>>
    ELSE Append(Decimal(n \div 10), DigitChars[(n % 10) + 1])

\* a padding that also cuts a longer number down to its last width digits
ZeroPadCut(s, width) ==
    IF Len(s) >= width THEN SubSeq(s, Len(s) - width + 1, Len(s))
    ELSE [k \in 1..width |-> IF k <= width - Len(s) THEN "0"
                             ELSE s[k - (width - Len(s))]]

RECURSIVE ZeroPad(_, _)
ZeroPad(s, width) == IF Len(s) >= width THEN s ELSE ZeroPad(<<"0">> \o s, width)

ProducerName(i) == Basename(ZeroPad(Decimal(i), 4))

\* --------------------------------------------------------- chunk files
\* ok: wave.open can parse the file; nframes: the frame count its header
\* declares; dataframes: the frames its data really holds
Wav(nch, sw, rate, nfr, dfr) ==
    [ok |-> TRUE, nchannels |-> nch, sampwidth |-> sw, framerate |-> rate,
     nframes |-> nfr, dataframes |-> dfr]

Corrupt ==
    [ok |-> FALSE, nchannels |-> 0, sampwidth |-> 0, framerate |-> 0,
     nframes |-> 0, dataframes |-> 0]

FrameCounts == {100, 150, 200}

ChunkContents ==
    {Wav(1, 2, 22050, n, n) : n \in FrameCounts}
        \cup {Wav(2, 2, 22050, 100, 100), Wav(1, 1, 22050, 100, 100),
              Wav(1, 2, 44100, 100, 100), Wav(1, 2, 22050, 200, 150), Corrupt}

Named(c, nm) == [name |-> nm] @@ c

\* the names the directory listing is drawn from (the part matched by *)
Stars ==
    {<<"0">>, <<"2">>, <<"1", "0">>, <<"1">>, <<"0", "0", "0", "2">>, <<"x">>}

\* Wave_read.getparams(): (nchannels, sampwidth, framerate, nframes,
\* comptype, compname)
getparams(f) ==
    <<f.nchannels, f.sampwidth, f.framerate, f.nframes, "NONE",
      "not compressed">>

\* t[:4]
First4(t) == SubSeq(t, 1, 4)

\* Wave_read.readframes(getnframes()): the bytes of the frames the file holds
readframes(f) == Min(f.nframes, f.dataframes) * f.nchannels * f.sampwidth

\* ------------------------------------------------------ output container
\* struct.pack('<L', v) is 4 bytes, struct.pack('<H', v) is 2 bytes
pack(fmt, v) == [tag |-> fmt, width |-> IF fmt = "L" THEN 4 ELSE 2, val |-> v]

\* struct.pack raises struct.error for a value outside the field's range;
\* every byte count of the bounded model is below 2^32
CanPack(fmt, v) == v >= 0 /\ (fmt = "H" => v <= 65535)

\* a 4-byte literal such as b'RIFF'
Literal(text) == [tag |-> text, width |-> 4, val |-> 0]

\* the header merge_audio_fixed writes before any data, both sizes 0
\* a header whose bits per sample field holds the sample width in bytes
HeaderFieldsBytes(p) ==
    <<Literal("RIFF"), pack("L", 0), Literal("WAVE"),
      Literal("fmt "), pack("L", 16), pack("H", 1), pack("H", p[1]),
      pack("L", p[3]), pack("L", p[3] * p[1] * p[2]),
      pack("H", p[1] * p[2]), pack("H", p[2]),
      Literal("data"), pack("L", 0)>>

HeaderFields(p) ==
    <<Literal("RIFF"), pack("L", 0), Literal("WAVE"),
      Literal("fmt "), pack("L", 16), pack("H", 1), pack("H", p[1]),
      pack("L", p[3]), pack("L", p[3] * p[1] * p[2]),
      pack("H", p[1] * p[2]), pack("H", p[2] * 8),
      Literal("data"), pack("L", 0)>>

RECURSIVE FieldsLen(_)
FieldsLen(h) ==
    IF h = <<>> THEN 0 ELSE FieldsLen(SubSeq(h, 1, Len(h) - 1)) + h[Len(h)].width

FieldOffset(h, k) == FieldsLen(SubSeq(h, 1, k - 1))

\* seek(off) followed by the write of one packed field
WriteAt(h, off, field) ==
    [k \in 1..Len(h) |-> IF FieldOffset(h, k) = off THEN field ELSE h[k]]

\* the value stored at byte offset off of the header
FieldAt(h, off) == h[CHOOSE k \in 1..Len(h) : FieldOffset(h, k) = off].val

\* the header the wave module writes and patches: same layout, the sizes
\* taken from the byte count it has recorded
WaveHeader(p, datalength) ==
    WriteAt(WriteAt(HeaderFields(p), 4, pack("L", 36 + datalength)),
            40, pack("L", datalength))

PcmSegment(pos, nbytes) == [kind |-> "pcm", src |-> pos, n |-> nbytes]

\* AudioSegment.silent(duration=ms)
SilentSegment(ms) == [kind |-> "silence", src |-> 0, n |-> ms]

RECURSIVE PcmBytes(_)
PcmBytes(segs) ==
    IF segs = <<>> THEN 0
    ELSE IF Len(segs) = 1 THEN segs[1].n
    ELSE LET m == Len(segs) \div 2
         IN  PcmBytes(SubSeq(segs, 1, m))
                 + PcmBytes(SubSeq(segs, m + 1, Len(segs)))

\* the byte counts that can have reached the stream when a write of n bytes
\* raises: nothing, or a part of the data
PartialBytes(n) == {0, n \div 2}

\* a report whose minutes are not reduced below the hour
DurationNoCarry(frames, rate) ==
    LET audio_duration == frames \div rate
    IN  <<audio_duration \div 3600, audio_duration \div 60,
          audio_duration % 60>>

\* hours, minutes, seconds as printed by the report
Duration(frames, rate) ==
    LET audio_duration == frames \div rate
    IN  <<audio_duration \div 3600, (audio_duration % 3600) \div 60,
          audio_duration % 60>>

\* ------------------------------------------------------------------ state
VARIABLES
    tool,          \* the program that runs
    wav_files,     \* the list of chunk files (chunk_files in the converters)
    pc,            \* position in the program
    params,        \* parameters of the first chunk, <<>> before they are read
    batch_num,     \* loop variable of the batch loop
    i,             \* loop variable of the chunk loop
    total_frames,  \* frame accumulator of merge_audio_fixed
    datawritten,   \* Wave_write's count of the bytes it has written
    out_exists,    \* the output file is on disk
    header,        \* header fields of the output file
    payload,       \* what follows the header in the output file
    combined,      \* the AudioSegment the converters build in memory
    skipped,       \* the skip messages printed, in order
    merged,        \* positions of the chunks whose frames were written whole
    faults,        \* output-stream errors raised so far
    duration,      \* the duration printed, <<>> when none was
    dir_exists,    \* the chunk folder exists
    open_inputs,   \* positions of the chunk files with an open read handle
    on_disk,       \* names of the chunk files in the chunk folder
    choice,        \* the answer typed at the deletion prompt, "" before it
    text,          \* content of the text file of a converter
    max_chunk_size, \* chunk_size argument of a converter
    chunks,        \* the text units returned by the chunker
    engine,        \* pyttsx3.init() has been called
    temp_folder,   \* the converter has created its chunk folder
    written        \* number of chunk files the converter has synthesised

vars ==
    <<tool, wav_files, pc, params, batch_num, i, total_frames, datawritten,
      out_exists, header, payload, combined, skipped, merged, faults,
      duration, dir_exists, open_inputs, on_disk, choice, text,
      max_chunk_size, chunks, engine, temp_folder, written>>

chunkerVars == <<text, max_chunk_size, chunks, engine, temp_folder, written>>

batch_size == IF tool = "fixed" THEN batch_size_fixed ELSE batch_size_fast

\* a batch count that leaves out a last batch that is not full
total_batches_floor == Len(wav_files) \div batch_size

total_batches == (Len(wav_files) + batch_size - 1) \div batch_size

start_idx == batch_num * batch_size

end_idx == Min(start_idx + batch_size, Len(wav_files))

batch_files == SubSeq(wav_files, start_idx + 1, end_idx)

\* position in wav_files (from 1) of the chunk the loops are at
CurPos == IF tool \in BatchedTools THEN start_idx + i + 1 ELSE i + 1

InLoopBody ==
    IF tool \in BatchedTools
    THEN batch_num < total_batches /\ i < Len(batch_files)
    ELSE i < Len(wav_files)

LoopDone ==
    IF tool \in BatchedTools THEN batch_num = total_batches
    ELSE i = Len(wav_files)

FrameSize(p) == p[1] * p[2]

\* tell() on the output stream
current_pos == FieldsLen(header) + PcmBytes(payload)

\* a position taken before b'data' is written
data_size_pos_early == FieldOffset(header, 12)

data_size_pos == FieldOffset(header, 13)

data_start_pos == FieldsLen(header)

\* an estimate from the frame accumulator instead of the stream position
data_size_estimate == total_frames * FrameSize(params)

data_size == current_pos - data_start_pos

file_size == current_pos - 8

\* Byte counts that can pass 2^31 - 1 are held as two 16-bit limbs,
\* hi * 65536 + lo: a file position is a Python int of any size.
Limb == 65536

Wide(n) == [hi |-> n \div Limb, lo |-> n % Limb]

WideAdd(a, b) ==
    [hi |-> a.hi + b.hi + (a.lo + b.lo) \div Limb, lo |-> (a.lo + b.lo) % Limb]

\* a - k for a small k <= a
WideSub(a, k) ==
    IF a.lo >= k THEN [hi |-> a.hi, lo |-> a.lo - k]
    ELSE [hi |-> a.hi - 1, lo |-> a.lo + Limb - k]

WideLeq(a, b) == a.hi < b.hi \/ (a.hi = b.hi /\ a.lo <= b.lo)

RECURSIVE WideBytes(_)
WideBytes(segs) ==
    IF segs = <<>> THEN Wide(0)
    ELSE IF Len(segs) = 1 THEN Wide(segs[1].n)
    ELSE LET m == Len(segs) \div 2
         IN  WideAdd(WideBytes(SubSeq(segs, 1, m)),
                     WideBytes(SubSeq(segs, m + 1, Len(segs))))

\* output_file_handle.tell() after the loops
wide_current_pos == WideAdd(Wide(FieldsLen(header)), WideBytes(payload))

wide_data_size == WideSub(wide_current_pos, data_start_pos)

wide_file_size == WideSub(wide_current_pos, 8)

\* 2^32 - 1, the largest value struct.pack('<L', v) takes
UINT32_MAX == [hi |-> Limb - 1, lo |-> Limb - 1]

\* a pack that takes every value and keeps its low 32 bits
CanPackWrapped(w) == TRUE

\* struct.pack('<L', v) raises struct.error for v > 2^32 - 1
CanPackWide(w) == WideLeq(w, UINT32_MAX)

\* the value of a size field: the integer n while the stream position, at
\* most one limb above it, is below 2^31, and the two limbs w from there
FieldValue(w, n) == IF w.hi < Limb \div 2 - 1 THEN n ELSE w

\* the converter before it has read its text
NothingSynthesized ==
    /\ chunks = <<>>
    /\ engine = FALSE
    /\ temp_folder = FALSE
    /\ written = 0

InitRest ==
    /\ params = <<>>
    /\ batch_num = 0
    /\ i = 0
    /\ total_frames = 0
    /\ datawritten = 0
    /\ combined = <<>>
    /\ skipped = <<>>
    /\ merged = <<>>
    /\ faults = 0
    /\ duration = <<>>
    /\ open_inputs = {}
    /\ choice = ""
    /\ text = <<>>
    /\ max_chunk_size = 0
    /\ NothingSynthesized

\* --------------------------------------------------------------- discovery
\* glob.glob returns the matching files in an order of its own
Listings ==
    {l \in UNION {[1..n -> Stars] : n \in 0..MaxFiles} :
        \A a, b \in 1..Len(l) : a # b => l[a] # l[b]}

\* the names of the files of a list, as a set
NameSet(files) == {files[k].name : k \in 1..Len(files)}

NoOutput ==
    /\ out_exists = FALSE
    /\ header = <<>>
    /\ payload = <<>>

\* an output file a previous run has left under the output name
OldHeader == WaveHeader(<<1, 2, 22050>>, 200)

OldPayload == <<PcmSegment(0, 200)>>

\* the folder is missing, or it exists and glob lists its matching files
InitCatalog ==
    /\ tool \in {"fixed", "wav", "fast"}
    /\ dir_exists \in BOOLEAN
    /\ \E l \in Listings :
           /\ dir_exists \/ l = <<>>
           /\ wav_files = [k \in 1..Len(l) |->
                              Named(Wav(1, 2, 22050, 100, 100), Basename(l[k]))]
    /\ on_disk = NameSet(wav_files)
    /\ pc = "scan"
    /\ out_exists \in BOOLEAN
    /\ header = IF out_exists THEN OldHeader ELSE <<>>
    /\ payload = IF out_exists THEN OldPayload ELSE <<>>
    /\ InitRest

\* a check that forgets the empty listing
NotFoundDirOnly == ~dir_exists

\* not os.path.exists("temp_audio_chunks"), or not wav_files
NotFound == ~dir_exists \/ wav_files = <<>>

\* the folder check, glob, the empty check and wav_files.sort(key=...); a
\* ValueError of int() is raised outside every try block
Discover ==
    /\ pc = "scan"
    /\ IF NotFound
       THEN pc' = "not_found" /\ UNCHANGED wav_files
       ELSE IF \A k \in 1..Len(wav_files) : IsInt(KeyText(wav_files[k]))
            THEN pc' = "start" /\ wav_files' = SortByKey(wav_files)
            ELSE pc' = "crashed" /\ UNCHANGED wav_files
    /\ UNCHANGED <<dir_exists, open_inputs, on_disk, choice, chunkerVars>>
    /\ UNCHANGED <<tool, params, batch_num, i, total_frames, datawritten,
                   out_exists, header, payload, combined, skipped, merged,
                   faults, duration>>

NextCatalog == Discover

SpecCatalog == InitCatalog /\ [][NextCatalog]_vars

\* ------------------------------------------------------------------ merge
Catalogs ==
    {[k \in 1..Len(c) |-> Named(c[k], ProducerName(k - 1))] :
        c \in UNION {[1..n -> ChunkContents] : n \in 1..MaxChunks}}

Init ==
    /\ tool \in Tools
    /\ wav_files \in Catalogs
    /\ pc = "start"
    /\ dir_exists = TRUE
    /\ on_disk = NameSet(wav_files)
    /\ NoOutput
    /\ InitRest

\* a with block that leaves its file open
LeakInput(pos) == UNCHANGED open_inputs

\* the end of a with wave.open(...) block, left in any way: the file the
\* block opened is closed
CloseInput(pos) == open_inputs' = open_inputs \ {pos}

\* with wave.open(wav_files[0], 'rb') as first_wav: params = getparams();
\* an exception reaches the handler of the outer try (wave.open closes the
\* file it could not parse)
OpenFirst ==
    /\ pc = "start"
    /\ tool \notin Converters
    /\ IF wav_files[1].ok
       THEN /\ params' = getparams(wav_files[1])
            /\ open_inputs' = open_inputs \cup {1}
            /\ pc' = "close_first"
       ELSE pc' = "failed" /\ UNCHANGED <<params, open_inputs>>
    /\ UNCHANGED <<dir_exists, on_disk, choice, chunkerVars>>
    /\ UNCHANGED <<tool, wav_files, batch_num, i, total_frames, datawritten,
                   out_exists, header, payload, combined, skipped, merged,
                   faults, duration>>

\* the end of the with block of the first chunk, and the parameter line
CloseFirst ==
    /\ pc = "close_first"
    /\ CloseInput(1)
    /\ pc' = "open_out"
    /\ UNCHANGED <<dir_exists, on_disk, choice, chunkerVars>>
    /\ UNCHANGED <<tool, wav_files, params, batch_num, i, total_frames,
                   datawritten, out_exists, header, payload, combined,
                   skipped, merged, faults, duration>>

\* merge_audio_fixed: open(output_file, 'wb'), the 44 header bytes with both
\* sizes 0, total_frames = 0.  The wave tools: wave.open(output_file, 'wb')
\* and setparams, which write nothing yet.
OpenOutput ==
    /\ pc = "open_out"
    /\ \/ /\ out_exists' = TRUE
          /\ header' = IF tool = "fixed" THEN HeaderFields(params) ELSE <<>>
          /\ payload' = <<>>
          /\ pc' = "merge"
          /\ UNCHANGED faults
       \/ /\ faults < MaxFaults
          /\ faults' = faults + 1
          /\ pc' = "failed"
          /\ UNCHANGED <<out_exists, header, payload>>
    /\ total_frames' = 0
    /\ batch_num' = 0
    /\ i' = 0
    /\ UNCHANGED <<dir_exists, open_inputs, on_disk, choice, chunkerVars>>
    /\ UNCHANGED <<tool, wav_files, params, datawritten, combined,
                   skipped, merged, duration>>

\* a chunk left out without a message
SkipSilently(pos, why) ==
    UNCHANGED <<skipped, total_frames, datawritten, header, payload, merged,
                faults>>

Skip(pos, why) ==
    /\ skipped' = Append(skipped, [pos |-> pos, reason |-> why])
    /\ UNCHANGED <<total_frames, datawritten, header, payload, merged, faults>>

\* a comparison that leaves the channel count out
SameParamsNoChannels(f) == SubSeq(getparams(f), 2, 4) = SubSeq(params, 2, 4)

\* the comparison that decides whether a chunk is written
SameParams(f) == First4(getparams(f)) = First4(params)

\* output_file_handle.write(frames); total_frames += getnframes()
WriteFixed(pos, f) ==
    \/ /\ payload' = Append(payload, PcmSegment(pos, readframes(f)))
       /\ total_frames' = total_frames + f.nframes
       /\ merged' = Append(merged, pos)
       /\ UNCHANGED <<skipped, faults, header, datawritten>>
    \/ /\ faults < MaxFaults
       /\ readframes(f) > 0
       /\ faults' = faults + 1
       /\ \E part \in PartialBytes(readframes(f)) :
              payload' = IF part = 0 THEN payload
                         ELSE Append(payload, PcmSegment(pos, part))
       /\ skipped' = Append(skipped, [pos |-> pos, reason |-> "error"])
       /\ UNCHANGED <<total_frames, merged, header, datawritten>>

\* Wave_write.writeframes(frames): the header is written before the first
\* data, the data is written and counted, the sizes are patched
WriteWave(pos, f) ==
    \/ /\ payload' = Append(payload, PcmSegment(pos, readframes(f)))
       /\ datawritten' = datawritten + readframes(f)
       /\ header' = WaveHeader(params, datawritten + readframes(f))
       /\ merged' = Append(merged, pos)
       /\ UNCHANGED <<skipped, faults, total_frames>>
    \/ /\ faults < MaxFaults
       /\ readframes(f) > 0
       /\ faults' = faults + 1
       /\ \E part \in PartialBytes(readframes(f)) :
              payload' = IF part = 0 THEN payload
                         ELSE Append(payload, PcmSegment(pos, part))
       /\ header' = IF header = <<>>
                    THEN WaveHeader(params, params[4] * FrameSize(params))
                    ELSE header
       /\ skipped' = Append(skipped, [pos |-> pos, reason |-> "error"])
       /\ UNCHANGED <<total_frames, merged, datawritten>>

\* the head of the chunk loop: with wave.open(wav_file, 'rb') as input_wav;
\* a file wave.open cannot parse is closed again and reported by the
\* except branch
OpenChunk ==
    /\ pc = "merge"
    /\ tool \notin Converters
    /\ InLoopBody
    /\ IF wav_files[CurPos].ok
       THEN /\ open_inputs' = open_inputs \cup {CurPos}
            /\ pc' = "chunk"
            /\ UNCHANGED <<i, skipped, total_frames, datawritten, header,
                           payload, merged, faults>>
       ELSE /\ Skip(CurPos, "error")
            /\ i' = i + 1
            /\ UNCHANGED <<pc, open_inputs>>
    /\ UNCHANGED <<dir_exists, on_disk, choice, chunkerVars>>
    /\ UNCHANGED <<tool, wav_files, params, batch_num, out_exists,
                   combined, duration>>

\* the body of the with block of one chunk and its end
ProcessChunk ==
    /\ pc = "chunk"
    /\ LET f == wav_files[CurPos]
       IN  IF tool # "fast" /\ ~SameParams(f)
           THEN Skip(CurPos, "mismatch")
           ELSE IF tool = "fixed"
                THEN WriteFixed(CurPos, f)
                ELSE WriteWave(CurPos, f)
    /\ CloseInput(CurPos)
    /\ i' = i + 1
    /\ pc' = "merge"
    /\ UNCHANGED <<dir_exists, on_disk, choice, chunkerVars>>
    /\ UNCHANGED <<tool, wav_files, params, batch_num, out_exists,
                   combined, duration>>

\* end of a batch: the progress line, then the next batch
BatchDone ==
    /\ pc = "merge"
    /\ tool \in BatchedTools
    /\ batch_num < total_batches
    /\ i = Len(batch_files)
    /\ batch_num' = batch_num + 1
    /\ i' = 0
    /\ UNCHANGED <<dir_exists, open_inputs, on_disk, choice, chunkerVars>>
    /\ UNCHANGED <<tool, wav_files, pc, params, total_frames, datawritten,
                   out_exists, header, payload, combined, skipped, merged,
                   faults, duration>>

\* merge_audio_fixed after the loops: tell, the two seeks and writes, the end
\* of the with block, the report
Backpatch ==
    /\ pc = "merge"
    /\ tool = "fixed"
    /\ LoopDone
    /\ IF CanPackWide(wide_file_size) /\ CanPackWide(wide_data_size)
       THEN LET riff_done ==
                    WriteAt(header, 4,
                            pack("L", FieldValue(wide_file_size, file_size)))
            IN  \/ /\ header' =
                          WriteAt(riff_done, data_size_pos,
                                  pack("L", FieldValue(wide_data_size,
                                                       data_size)))
                   /\ pc' = "done"
                   /\ duration' = Duration(total_frames, params[3])
                   /\ UNCHANGED faults
                \/ /\ faults < MaxFaults
                   /\ faults' = faults + 1
                   /\ \/ header' = header
                      \/ header' = riff_done
                   /\ pc' = "failed"
                   /\ UNCHANGED duration
       ELSE /\ pc' = "failed"
            /\ UNCHANGED <<header, duration, faults>>
    /\ UNCHANGED <<dir_exists, open_inputs, on_disk, choice, chunkerVars>>
    /\ UNCHANGED <<tool, wav_files, params, batch_num, i, total_frames,
                   datawritten, out_exists, payload, combined, skipped,
                   merged>>

\* the wave tools after the loops: Wave_write.close() writes the header if
\* no data was written and patches the sizes; the report reads the frame
\* count back from the output file
CloseOutput ==
    /\ pc = "merge"
    /\ tool \in WaveTools
    /\ LoopDone
    /\ \/ /\ header' = WaveHeader(params, datawritten)
          /\ pc' = "done"
          /\ duration' = Duration(datawritten \div FrameSize(params), params[3])
          /\ UNCHANGED faults
       \/ /\ faults < MaxFaults
          /\ faults' = faults + 1
          /\ pc' = "failed"
          /\ UNCHANGED <<header, duration>>
    /\ UNCHANGED <<dir_exists, open_inputs, on_disk, choice, chunkerVars>>
    /\ UNCHANGED <<tool, wav_files, params, batch_num, i, total_frames,
                   datawritten, out_exists, payload, combined, skipped,
                   merged>>

\* ------------------------------------------------------------- converters
silence_ms == IF tool = "large" THEN silence_large ELSE silence_advanced

ConcatAll(files, n) ==
    [k \in 1..n |-> PcmSegment(k, readframes(files[k]))]

\* from pydub import AudioSegment; combined = AudioSegment.empty().
\* Without pydub txt_to_mp3_large_file returns False and txt_to_wav_large
\* runs ffmpeg's concat, which fails on a file it cannot read.
ImportPydub ==
    /\ pc = "start"
    /\ tool \in Converters
    /\ \/ /\ pc' = "merge"
          /\ UNCHANGED <<out_exists, payload, merged>>
       \/ /\ pc' = "failed"
          /\ UNCHANGED <<out_exists, payload, merged>>
       \/ /\ tool = "large"
          /\ \A k \in 1..Len(wav_files) : wav_files[k].ok
          /\ out_exists' = TRUE
          /\ payload' = ConcatAll(wav_files, Len(wav_files))
          /\ merged' = [k \in 1..Len(wav_files) |-> k]
          /\ pc' = "done"
    /\ combined' = <<>>
    /\ i' = 0
    /\ UNCHANGED <<dir_exists, open_inputs, on_disk, choice, chunkerVars>>
    /\ UNCHANGED <<tool, wav_files, params, batch_num, total_frames,
                   datawritten, header, skipped, faults, duration>>

\* audio_chunk = AudioSegment.from_wav(chunk_file); combined += audio_chunk;
\* combined += AudioSegment.silent(duration=...)
AppendChunk ==
    /\ pc = "merge"
    /\ tool \in Converters
    /\ i < Len(wav_files)
    /\ LET f == wav_files[i + 1]
       IN  IF f.ok
           THEN /\ combined' = combined \o <<PcmSegment(i + 1, readframes(f)),
                                              SilentSegment(silence_ms)>>
                /\ merged' = Append(merged, i + 1)
                /\ i' = i + 1
                /\ UNCHANGED pc
           ELSE /\ pc' = "failed"
                /\ UNCHANGED <<combined, merged, i>>
    /\ UNCHANGED <<dir_exists, open_inputs, on_disk, choice, chunkerVars>>
    /\ UNCHANGED <<tool, wav_files, params, batch_num, total_frames,
                   datawritten, out_exists, header, payload, skipped, faults,
                   duration>>

\* combined.export(output_path, format=...)
Export ==
    /\ pc = "merge"
    /\ tool \in Converters
    /\ i = Len(wav_files)
    /\ \/ /\ out_exists' = TRUE
          /\ payload' = combined
          /\ pc' = "done"
          /\ UNCHANGED faults
       \/ /\ faults < MaxFaults
          /\ faults' = faults + 1
          /\ pc' = "failed"
          /\ UNCHANGED <<out_exists, payload>>
    /\ UNCHANGED <<dir_exists, open_inputs, on_disk, choice, chunkerVars>>
    /\ UNCHANGED <<tool, wav_files, params, batch_num, i, total_frames,
                   datawritten, header, combined, skipped, merged, duration>>

\* what the user can type at the deletion prompt
Choices == {"y", "yes", "n", ""}

\* merge_audio_fixed, merge_audio_fast: choice == 'y';
\* clean_temp_files: choice in ['y', 'yes', '是', '好']
Confirms(answer) ==
    IF tool = "wav" THEN answer \in {"y", "yes", "U+662F", "U+597D"}
    ELSE answer = "y"

\* after the report of a merge that ended well: the merge tools ask and
\* remove the chunk files on a yes, the converters remove them unasked
Cleanup ==
    /\ pc = "done"
    /\ IF tool \in Converters
       THEN /\ on_disk' = on_disk \ NameSet(wav_files)
            /\ UNCHANGED choice
       ELSE \E answer \in Choices :
                /\ choice' = answer
                /\ on_disk' = IF Confirms(answer)
                              THEN on_disk \ NameSet(wav_files)
                              ELSE on_disk
    /\ pc' = "end"
    /\ UNCHANGED <<dir_exists, open_inputs, chunkerVars>>
    /\ UNCHANGED <<tool, wav_files, params, batch_num, i, total_frames,
                   datawritten, out_exists, header, payload, combined,
                   skipped, merged, faults, duration>>

Next ==
    \/ OpenFirst
    \/ CloseFirst
    \/ OpenOutput
    \/ OpenChunk
    \/ ProcessChunk
    \/ BatchDone
    \/ Backpatch
    \/ CloseOutput
    \/ Cleanup
    \/ ImportPydub
    \/ AppendChunk
    \/ Export

Spec == Init /\ [][Next]_vars

\* ---------------------------------------------------------------- report

\* chunk files long enough for a duration of hours: 1 Hz and 2 Hz recordings
ReportContents ==
    {Wav(1, 2, 1, 59, 59), Wav(1, 2, 1, 3661, 3661), Wav(1, 2, 2, 7323, 7323),
     Wav(1, 2, 1, 3661, 100), Corrupt}

ReportCatalogs ==
    {[k \in 1..Len(c) |-> Named(c[k], ProducerName(k - 1))] :
        c \in UNION {[1..n -> ReportContents] : n \in 1..MaxChunks}}

InitReport ==
    /\ tool \in {"fixed", "wav", "fast"}
    /\ wav_files \in ReportCatalogs
    /\ pc = "start"
    /\ dir_exists = TRUE
    /\ on_disk = NameSet(wav_files)
    /\ NoOutput
    /\ InitRest

\* one run of a merge tool up to its report and the deletion prompt
NextReport ==
    \/ OpenFirst
    \/ CloseFirst
    \/ OpenOutput
    \/ OpenChunk
    \/ ProcessChunk
    \/ BatchDone
    \/ Backpatch
    \/ CloseOutput
    \/ Cleanup

SpecReport == InitReport /\ [][NextReport]_vars

\* -------------------------------------------------------------- producer

\* indices of text units around the padding width of chunk_{i:04d}.wav
ProducerIndices == {0, 1, 2, 9, 10, 9999, 10000, 10001}

\* the chunk file a converter writes for text unit k
Produced(k) ==
    [unit |-> k] @@ Named(Wav(1, 2, 22050, 100, 100), ProducerName(k))

\* files a converter has written, as a directory listing returns them
ProducerListings ==
    {l \in UNION {[1..n -> ProducerIndices] : n \in 1..MaxFiles} :
        \A a, b \in 1..Len(l) : a # b => l[a] # l[b]}

InitProducer ==
    /\ tool \in {"fixed", "wav", "fast"}
    /\ dir_exists = TRUE
    /\ \E l \in ProducerListings :
           wav_files = [k \in 1..Len(l) |-> Produced(l[k])]
    /\ on_disk = NameSet(wav_files)
    /\ pc = "scan"
    /\ NoOutput
    /\ InitRest

SpecProducer == InitProducer /\ [][NextCatalog]_vars

\* ------------------------------------------------------------ large files

\* stereo 16-bit chunk files of 1.4 to 1.6 GB: three of the first kind give
\* an output of 2^32 - 4 bytes less 8, three of the second kind one of 2^32
\* + 8 bytes less 8
HugeContents ==
    {Wav(2, 2, 44100, 357913938, 357913938),
     Wav(2, 2, 44100, 357913939, 357913939),
     Wav(2, 2, 44100, 400000000, 400000000)}

HugeCatalogs ==
    {[k \in 1..Len(c) |-> Named(c[k], ProducerName(k - 1))] :
        c \in UNION {[1..n -> HugeContents] : n \in 1..MaxChunks}}

InitHuge ==
    /\ tool = "fixed"
    /\ wav_files \in HugeCatalogs
    /\ pc = "start"
    /\ dir_exists = TRUE
    /\ on_disk = NameSet(wav_files)
    /\ NoOutput
    /\ InitRest

\* one run of merge_audio_fixed
NextHuge ==
    \/ OpenFirst
    \/ CloseFirst
    \/ OpenOutput
    \/ OpenChunk
    \/ ProcessChunk
    \/ BatchDone
    \/ Backpatch
    \/ Cleanup

SpecHuge == InitHuge /\ [][NextHuge]_vars

\* --------------------------------------------------------------- batches

\* catalog lengths around the batch sizes 50 and 100
BatchLengths == {1, 50, 51, 100, 101}

\* a catalog of n chunk files of one format and length, as a converter
\* leaves them, merged on a disk that raises no output error (the errors
\* the model may inject are used up)
InitBatch ==
    /\ tool \in BatchedTools
    /\ \E n \in BatchLengths :
           wav_files = [k \in 1..n |-> Named(Wav(1, 2, 22050, 100, 100),
                                             ProducerName(k - 1))]
    /\ pc = "start"
    /\ dir_exists = TRUE
    /\ on_disk = NameSet(wav_files)
    /\ NoOutput
    /\ params = <<>>
    /\ batch_num = 0
    /\ i = 0
    /\ total_frames = 0
    /\ datawritten = 0
    /\ combined = <<>>
    /\ skipped = <<>>
    /\ merged = <<>>
    /\ faults = MaxFaults
    /\ duration = <<>>
    /\ open_inputs = {}
    /\ choice = ""
    /\ text = <<>>
    /\ max_chunk_size = 0
    /\ NothingSynthesized

\* one run of a batched merge tool
NextBatch ==
    \/ OpenFirst
    \/ CloseFirst
    \/ OpenOutput
    \/ OpenChunk
    \/ ProcessChunk
    \/ BatchDone
    \/ Backpatch
    \/ CloseOutput
    \/ Cleanup

SpecBatch == InitBatch /\ [][NextBatch]_vars

\* ----------------------------------------------------------- text chunkers

\* the characters re.split(r'[。！？.!?]', ...) splits at
\* a character is a one-character string, or the code point of a character
\* outside ASCII
FullStop == "U+3002"
Terminators == {FullStop, "U+FF01", "U+FF1F", ".", "!", "?"}

\* characters str.strip() removes
Whitespace == {" ", "\n", "\t", "\r"}

RECURSIVE lstrip(_)
lstrip(s) ==
    IF s # <<>> /\ Head(s) \in Whitespace THEN lstrip(Tail(s)) ELSE s

RECURSIVE rstrip(_)
rstrip(s) ==
    IF s # <<>> /\ s[Len(s)] \in Whitespace
    THEN rstrip(SubSeq(s, 1, Len(s) - 1))
    ELSE s

strip(s) == rstrip(lstrip(s))

\* str.split(sep) for a separator of one or more characters
RECURSIVE split_str(_, _)
split_str(s, sep) ==
    LET At(k) == SubSeq(s, k, k + Len(sep) - 1) = sep
        last == Len(s) - Len(sep) + 1
    IN  IF \A k \in 1..last : ~At(k)
        THEN <<s>>
        ELSE LET k == CHOOSE j \in 1..last : At(j) /\ \A h \in 1..(j - 1) : ~At(h)
             IN  <<SubSeq(s, 1, k - 1)>>
                     \o split_str(SubSeq(s, k + Len(sep), Len(s)), sep)

\* re.split(r'[。！？.!?]', s)
RECURSIVE re_split(_)
re_split(s) ==
    IF \A k \in 1..Len(s) : s[k] \notin Terminators
    THEN <<s>>
    ELSE LET k == CHOOSE j \in 1..Len(s) :
                      s[j] \in Terminators
                          /\ \A h \in 1..(j - 1) : s[h] \notin Terminators
         IN  <<SubSeq(s, 1, k - 1)>> \o re_split(SubSeq(s, k + 1, Len(s)))

endswith(s, set) == s # <<>> /\ s[Len(s)] \in set

\* a flush that forgets the units before it
FlushKeepLast(done, current_chunk) ==
    IF current_chunk # <<>> THEN <<strip(current_chunk)>> ELSE done

\* if current_chunk: chunks.append(current_chunk.strip())
Flush(done, current_chunk) ==
    IF current_chunk # <<>> THEN Append(done, strip(current_chunk)) ELSE done

\* the accumulator of both chunkers: the finished units and current_chunk
EmptyAcc == [done |-> <<>>, cur |-> <<>>]

\* an accumulator that never starts a new unit
AccumulateAlways(acc, measured, piece, m) ==
    [acc EXCEPT !.cur = @ \o piece]

\* current_chunk += piece if the test on the measured length allows it,
\* otherwise the current chunk is saved and piece starts the next one
Accumulate(acc, measured, piece, m) ==
    IF Len(acc.cur) + measured < m
    THEN [acc EXCEPT !.cur = @ \o piece]
    ELSE [done |-> Flush(acc.done, acc.cur), cur |-> piece]

\* split_text_into_chunks: one pass of the sentence loop
AddSentencePlain(acc, raw, m) ==
    LET sentence == strip(raw)
    IN  IF sentence = <<>> THEN acc
        ELSE Accumulate(acc, Len(sentence), Append(sentence, FullStop), m)

\* split_text_smart: one pass of the sentence loop of a large paragraph
AddSentenceSmart(acc, raw, m) ==
    LET stripped == strip(raw)
        sentence == IF endswith(stripped, Terminators) THEN stripped
                    ELSE Append(stripped, FullStop)
    IN  IF stripped = <<>> THEN acc
        ELSE Accumulate(acc, Len(sentence), sentence, m)

RECURSIVE FoldPlain(_, _, _)
FoldPlain(acc, sentences, m) ==
    IF sentences = <<>> THEN acc
    ELSE FoldPlain(AddSentencePlain(acc, Head(sentences), m),
                   Tail(sentences), m)

RECURSIVE FoldSmart(_, _, _)
FoldSmart(acc, sentences, m) ==
    IF sentences = <<>> THEN acc
    ELSE FoldSmart(AddSentenceSmart(acc, Head(sentences), m),
                   Tail(sentences), m)

\* split_text_smart: one pass of the paragraph loop
AddParagraph(acc, raw, m) ==
    LET paragraph == strip(raw)
    IN  IF paragraph = <<>> THEN acc
        ELSE IF Len(paragraph) > m
             THEN FoldSmart(acc, re_split(paragraph), m)
             ELSE Accumulate(acc, Len(paragraph), Append(paragraph, "\n"), m)

RECURSIVE FoldParagraphs(_, _, _)
FoldParagraphs(acc, paragraphs, m) ==
    IF paragraphs = <<>> THEN acc
    ELSE FoldParagraphs(AddParagraph(acc, Head(paragraphs), m),
                        Tail(paragraphs), m)

split_text_smart(t, m) ==
    LET acc == FoldParagraphs(EmptyAcc, split_str(t, <<"\n", "\n">>), m)
    IN  Flush(acc.done, acc.cur)

split_text_into_chunks(t, m) ==
    LET acc == FoldPlain(EmptyAcc, re_split(t), m)
    IN  Flush(acc.done, acc.cur)

\* the chunker each converter calls
chunker(t, m) ==
    IF tool = "large" THEN split_text_smart(t, m)
    ELSE split_text_into_chunks(t, m)

\* a blank check that lets every text through
NeverBlank(t) == FALSE

\* not text.strip()
IsBlank(t) == strip(t) = <<>>

TextChars == {"a", "b", ".", " ", "\n"}

Texts == UNION {[1..n -> TextChars] : n \in 0..MaxText}

\* a call of the chunker on its own ("call"), or a run of the converter on a
\* text file ("read")
InitChunk ==
    /\ tool \in Converters
    /\ text \in Texts
    /\ max_chunk_size \in 1..MaxSize
    /\ pc \in {"call", "read"}
    /\ wav_files = <<>>
    /\ dir_exists = FALSE
    /\ on_disk = {}
    /\ NoOutput
    /\ params = <<>>
    /\ batch_num = 0
    /\ i = 0
    /\ total_frames = 0
    /\ datawritten = 0
    /\ combined = <<>>
    /\ skipped = <<>>
    /\ merged = <<>>
    /\ faults = 0
    /\ duration = <<>>
    /\ open_inputs = {}
    /\ choice = ""
    /\ NothingSynthesized

mergeVars ==
    <<wav_files, params, batch_num, i, total_frames, datawritten, out_exists,
      header, payload, combined, skipped, merged, faults, duration,
      dir_exists, open_inputs, choice>>

\* chunks = split_text_smart(text, chunk_size) or
\* chunks = split_text_into_chunks(text, chunk_size), called on its own
CallChunker ==
    /\ pc = "call"
    /\ chunks' = chunker(text, max_chunk_size)
    /\ pc' = "returned"
    /\ UNCHANGED <<tool, text, max_chunk_size, engine, temp_folder, written,
                   on_disk, mergeVars>>

\* text = file.read(); if not text.strip(): return False; chunks = ...
ReadText ==
    /\ pc = "read"
    /\ IF IsBlank(text)
       THEN pc' = "failed" /\ UNCHANGED chunks
       ELSE pc' = "init" /\ chunks' = chunker(text, max_chunk_size)
    /\ UNCHANGED <<tool, text, max_chunk_size, engine, temp_folder, written,
                   on_disk, mergeVars>>

\* engine = pyttsx3.init() and the voice settings
InitEngine ==
    /\ pc = "init"
    /\ engine' = TRUE
    /\ pc' = "mkdir"
    /\ UNCHANGED <<tool, text, max_chunk_size, chunks, temp_folder, written,
                   on_disk, mergeVars>>

\* temp_folder.mkdir(exist_ok=True)
MakeTempFolder ==
    /\ pc = "mkdir"
    /\ temp_folder' = TRUE
    /\ pc' = "synth"
    /\ UNCHANGED <<tool, text, max_chunk_size, chunks, engine, written,
                   on_disk, mergeVars>>

\* one pass of the conversion loop: engine.save_to_file(chunk,
\* temp_folder / f"chunk_{i:04d}.wav"); engine.runAndWait()
Synthesize ==
    /\ pc = "synth"
    /\ written < Len(chunks)
    /\ on_disk' = on_disk \cup {ProducerName(written)}
    /\ written' = written + 1
    /\ UNCHANGED <<tool, text, max_chunk_size, chunks, engine, temp_folder,
                   pc, mergeVars>>

\* the end of the conversion loop
SynthesisDone ==
    /\ pc = "synth"
    /\ written = Len(chunks)
    /\ pc' = "synthesized"
    /\ UNCHANGED <<tool, text, max_chunk_size, chunks, engine, temp_folder,
                   written, on_disk, mergeVars>>

\* paragraphs of a text file: with and without sentence terminators, one
\* of whitespace only
ParagraphPool ==
    {<<"a">>, <<"a", "b">>, <<"b", "b", "a">>, <<"a", ".">>,
     <<"b", ".", "a">>, <<" ">>}

RECURSIVE JoinParagraphs(_)
JoinParagraphs(ps) ==
    IF ps = <<>> THEN <<>>
    ELSE IF Len(ps) = 1 THEN ps[1]
    ELSE ps[1] \o <<"\n", "\n">> \o JoinParagraphs(Tail(ps))

\* a text file of paragraphs separated by blank lines
InitParagraphs ==
    /\ tool \in Converters
    /\ \E ps \in UNION {[1..n -> ParagraphPool] : n \in 1..MaxParagraphs} :
           text = JoinParagraphs(ps)
    /\ max_chunk_size \in 1..MaxSize
    /\ pc \in {"call", "read"}
    /\ wav_files = <<>>
    /\ dir_exists = FALSE
    /\ on_disk = {}
    /\ NoOutput
    /\ params = <<>>
    /\ batch_num = 0
    /\ i = 0
    /\ total_frames = 0
    /\ datawritten = 0
    /\ combined = <<>>
    /\ skipped = <<>>
    /\ merged = <<>>
    /\ faults = 0
    /\ duration = <<>>
    /\ open_inputs = {}
    /\ choice = ""
    /\ NothingSynthesized

NextChunk ==
    \/ CallChunker
    \/ ReadText
    \/ InitEngine
    \/ MakeTempFolder
    \/ Synthesize
    \/ SynthesisDone

SpecChunk == InitChunk /\ [][NextChunk]_vars

SpecParagraphs == InitParagraphs /\ [][NextChunk]_vars

\* ================================================================ claims
Format(f) == <<f.nchannels, f.sampwidth, f.framerate>>

RefFormat == SubSeq(params, 1, 3)

SeqSet(q) == {q[k] : k \in 1..Len(q)}

SkippedPositions == {e.pos : e \in SeqSet(skipped)}

RECURSIVE SumFrames(_, _)
SumFrames(files, positions) ==
    IF positions = <<>> THEN 0
    ELSE IF Len(positions) = 1 THEN files[positions[1]].nframes
    ELSE LET m == Len(positions) \div 2
         IN  SumFrames(files, SubSeq(positions, 1, m))
                 + SumFrames(files, SubSeq(positions, m + 1, Len(positions)))

AllPositions == [k \in 1..Len(wav_files) |-> k]

\* a chunk wave.open reads, whose data holds the frames its header declares
Valid(f) == f.ok /\ f.dataframes = f.nframes

WholeSegments(positions) ==
    [k \in 1..Len(positions) |->
        PcmSegment(positions[k], readframes(wav_files[positions[k]]))]

\* C1: chunks of 100, 150 and 200 frames (mono, 16 bit, 22050 Hz) merge to
\* 450 frames with 3 merged, 0 skipped and duration 00:00:00, and no chunk
\* with the channels, width and rate of the reference is skipped as a
\* mismatch, whatever its frame count
C1_EndToEnd ==
    (tool \in {"fixed", "wav"} /\ faults = 0) =>
        /\ \A e \in SeqSet(skipped) :
               e.reason = "mismatch" => Format(wav_files[e.pos]) # RefFormat
        /\ (/\ pc = "done"
            /\ Len(wav_files) = 3
            /\ \A k \in 1..3 : Format(wav_files[k]) = <<1, 2, 22050>>
            /\ <<wav_files[1].nframes, wav_files[2].nframes,
                 wav_files[3].nframes>> = <<100, 150, 200>>
            /\ \A k \in 1..3 : Valid(wav_files[k]))
           => /\ PcmBytes(payload) = 450 * 2
              /\ Len(merged) = 3
              /\ Len(skipped) = 0
              /\ duration = <<0, 0, 0>>

\* C2: when every chunk is valid and of one format, the merge ends with
\* total_frames equal to the sum of the chunks' frame counts
C2_TotalIsSum ==
    (/\ tool = "fixed"
     /\ pc = "done"
     /\ faults = 0
     /\ \A k \in 1..Len(wav_files) :
            Valid(wav_files[k]) /\ Format(wav_files[k]) = Format(wav_files[1]))
    => total_frames = SumFrames(wav_files, AllPositions)

\* C3: when a merge of merge_audio_fixed completes, the field at offset 4
\* holds the file length minus 8 and the field at offset 40 the number of
\* bytes that follow the 44 header bytes, and neither is 0 when data was
\* written
C3_SizeFields ==
    (tool = "fixed" /\ pc = "done") =>
        /\ FieldsLen(header) = 44
        /\ FieldAt(header, 4) = 44 + PcmBytes(payload) - 8
        /\ FieldAt(header, 40) = PcmBytes(payload)
        /\ PcmBytes(payload) > 0 =>
               FieldAt(header, 4) # 0 /\ FieldAt(header, 40) # 0

C3_Witness ==
    /\ tool = "fixed"
    /\ pc = "done"
    /\ Len(merged) >= 2
    /\ Len(skipped) >= 1
    /\ FieldAt(header, 40) > 0

\* C4: one chunk that cannot be read, at any position of a catalog that has
\* other chunks, never aborts the merge, and the chunks of the reference
\* format are all merged
C4_BadChunkNeverAborts ==
    (/\ tool \in {"fixed", "wav"}
     /\ faults = 0
     /\ Len(wav_files) > 1
     /\ Cardinality({k \in 1..Len(wav_files) : ~wav_files[k].ok}) = 1)
    => /\ pc # "failed"
       /\ pc = "done" =>
              \A k \in 1..Len(wav_files) :
                  (Valid(wav_files[k]) /\ Format(wav_files[k]) = RefFormat)
                      => k \in SeqSet(merged)

\* C5: in the three merge tools the reference parameters are those of the
\* first chunk of the catalog, and every chunk with bytes in the output has
\* the channel count, sample width and frame rate of the reference
C5_WrittenMatchReference ==
    (tool \notin Converters /\ params # <<>>) =>
        /\ params = getparams(wav_files[1])
        /\ \A s \in SeqSet(payload) : Format(wav_files[s.src]) = RefFormat

\* C6: in merge_audio_fixed and merge_wav_files a chunk whose channel count
\* differs from the reference has no bytes in the output and no frames in
\* total_frames, is reported with a mismatch message once the loop has
\* passed it, and does not end the merge: the loop goes on to the last chunk
C6_ChannelMismatchSkipped ==
    (tool \in {"fixed", "wav"} /\ params # <<>>) =>
        /\ \A k \in 1..Len(wav_files) :
               (wav_files[k].ok /\ wav_files[k].nchannels # params[1]) =>
                   /\ \A s \in SeqSet(payload) : s.src # k
                   /\ k \notin SeqSet(merged)
                   /\ (pc = "done" \/ (pc = "merge" /\ k < CurPos)) =>
                          [pos |-> k, reason |-> "mismatch"] \in SeqSet(skipped)
        /\ tool = "fixed" => total_frames = SumFrames(wav_files, merged)
        /\ pc = "done" =>
               SeqSet(merged) \cup SkippedPositions = 1..Len(wav_files)
        /\ pc = "failed" => (faults > 0 \/ ~wav_files[1].ok)

C6_Witness ==
    /\ tool \in {"fixed", "wav"}
    /\ pc = "done"
    /\ \E e \in SeqSet(skipped) :
           /\ e.reason = "mismatch"
           /\ wav_files[e.pos].nchannels # params[1]
           /\ \E m \in SeqSet(merged) : m > e.pos

\* the integer a producer formatted into the name, whatever the padding
IndexInName(f) ==
    CHOOSE n \in 0..10 :
        \E w \in 1..4 : f.name = Basename(ZeroPad(Decimal(n), w))

Names(files) == [k \in 1..Len(files) |-> files[k].name]

\* C7: the sort keeps every file and orders the files by the integer in the
\* name, strictly increasing when the integers are distinct; chunk_0.wav,
\* chunk_2.wav and chunk_10.wav come out in the order 0, 2, 10 from any
\* listing order
C7_NumericOrder ==
    [][(pc = "scan" /\ pc' = "start") =>
          /\ Len(wav_files') = Len(wav_files)
          /\ SeqSet(wav_files') = SeqSet(wav_files)
          /\ \A a, b \in 1..Len(wav_files') :
                 a < b =>
                     /\ IndexInName(wav_files'[a]) <= IndexInName(wav_files'[b])
                     /\ (\A c, d \in 1..Len(wav_files) :
                             c # d => IndexInName(wav_files[c])
                                          # IndexInName(wav_files[d]))
                        => IndexInName(wav_files'[a]) < IndexInName(wav_files'[b])
          /\ SeqSet(Names(wav_files))
                 = {Basename(<<"0">>), Basename(<<"2">>), Basename(<<"1", "0">>)}
             => Names(wav_files')
                    = <<Basename(<<"0">>), Basename(<<"2">>),
                        Basename(<<"1", "0">>)>>]_vars

C7_Witness ==
    /\ pc = "start"
    /\ Names(wav_files)
           = <<Basename(<<"0">>), Basename(<<"2">>), Basename(<<"1", "0">>)>>

\* C11: when the chunk folder is missing or glob finds no chunk file, the
\* tool ends at once with its error message: nothing is read, and an output
\* file is neither created nor changed
C11_NotFoundNoOutput ==
    [][(pc = "scan" /\ (~dir_exists \/ Len(wav_files) = 0)) =>
          /\ pc' = "not_found"
          /\ UNCHANGED <<out_exists, header, payload, params, merged,
                         skipped, open_inputs, on_disk, wav_files>>]_vars

C11_Witness ==
    /\ pc = "not_found"
    /\ dir_exists
    /\ out_exists
    /\ header = OldHeader
    /\ payload = OldPayload

\* the sentence fragments of a unit: what lies between its terminators,
\* without surrounding whitespace and without the empty pieces
Fragments(u) ==
    LET pieces == re_split(u)
    IN  SelectSeq([k \in 1..Len(pieces) |-> strip(pieces[k])],
                  LAMBDA f : f # <<>>)

\* C14: every unit a chunker returns is at most max_chunk_size long, unless
\* it holds one single sentence fragment that is itself longer than
\* max_chunk_size
C14_UnitWithinLimit ==
    \A k \in 1..Len(chunks) :
        \/ Len(chunks[k]) <= max_chunk_size
        \/ /\ Len(Fragments(chunks[k])) = 1
           /\ Len(Fragments(chunks[k])[1]) > max_chunk_size

RECURSIVE Concat(_)
Concat(units) ==
    IF units = <<>> THEN <<>> ELSE Head(units) \o Concat(Tail(units))

\* s without sentence terminators and whitespace
Core(s) == SelectSeq(s, LAMBDA c : c \notin Terminators \cup Whitespace)

C16_BlankIsFatal ==
    (\A k \in 1..Len(text) : text[k] \in Whitespace) =>
        /\ chunks = <<>>
        /\ pc \in {"call", "returned", "read", "failed"}
        /\ ~engine
        /\ ~temp_folder
        /\ written = 0
        /\ on_disk = {}

C16_Witness ==
    /\ pc = "failed"
    /\ tool = "large"
    /\ text = <<" ", "\n", "\n", " ">>
    /\ chunks = <<>>
    /\ ~engine

\* the frames of the accepted chunks: as counted by getnframes() in
\* merge_audio_fixed, as found in the output file by the wave tools
AcceptedFrames ==
    IF tool = "fixed" THEN SumFrames(wav_files, merged)
    ELSE SumFrames([k \in 1..Len(wav_files) |->
                        [nframes |-> Min(wav_files[k].nframes,
                                         wav_files[k].dataframes)]],
                   merged)

\* C18: the duration a merge tool reports is s = AcceptedFrames div frame
\* rate of the first chunk, printed as hours = s div 3600, minutes =
\* (s mod 3600) div 60, seconds = s mod 60, with minutes and seconds in
\* 0..59 and hours * 3600 + minutes * 60 + seconds = s
C18_Duration ==
    (tool \notin Converters /\ pc \in {"done", "end"}) =>
        LET s == AcceptedFrames \div params[3]
        IN  /\ duration = <<s \div 3600, (s % 3600) \div 60, s % 60>>
            /\ duration[2] \in 0..59
            /\ duration[3] \in 0..59
            /\ duration[1] * 3600 + duration[2] * 60 + duration[3] = s

C18_Witness ==
    /\ tool = "fixed"
    /\ pc = "done"
    /\ total_frames = 3 * 7323
    /\ duration = <<3, 3, 4>>

\* C19: the header merge_audio_fixed writes is 44 bytes long and holds, in
\* this order, RIFF, a 4-byte size at offset 4, WAVE, 'fmt ', 16, format
\* tag 1, the channels, the sample rate, byte rate = rate * channels * width,
\* block align = channels * width, bits per sample = 8 * width of the first
\* chunk, 'data' and a 4-byte size at offset 40, so that the PCM data starts
\* at offset 44
C19_HeaderLayout ==
    (tool = "fixed" /\ header # <<>>) =>
        LET ref == wav_files[1]
        IN  /\ [k \in 1..Len(header) |-> header[k].tag]
                   = <<"RIFF", "L", "WAVE", "fmt ", "L", "H", "H", "L", "L",
                       "H", "H", "data", "L">>
            /\ [k \in 1..Len(header) |-> header[k].width]
                   = <<4, 4, 4, 4, 4, 2, 2, 4, 4, 2, 2, 4, 4>>
            /\ header[5].val = 16
            /\ header[6].val = 1
            /\ header[7].val = ref.nchannels
            /\ header[8].val = ref.framerate
            /\ header[9].val = ref.framerate * ref.nchannels * ref.sampwidth
            /\ header[10].val = ref.nchannels * ref.sampwidth
            /\ header[11].val = 8 * ref.sampwidth
            /\ FieldOffset(header, 2) = 4
            /\ FieldOffset(header, 13) = 40
            /\ FieldsLen(header) = 44

C19_Witness ==
    /\ tool = "fixed"
    /\ pc = "done"
    /\ wav_files[1].nchannels = 2
    /\ header[9].val = 88200
    /\ header[10].val = 4
    /\ header[11].val = 16

\* C30: for a text with a character that is not whitespace a chunker
\* returns at least one unit and no empty unit, so the converter goes on
\* with a chunk list that is not empty
C30_SomeUnitReturned ==
    (/\ \E k \in 1..Len(text) : text[k] \notin Whitespace
     /\ pc \notin {"call", "read"})
    => /\ Len(chunks) >= 1
       /\ \A k \in 1..Len(chunks) : chunks[k] # <<>>

\* the paragraphs split_text_smart sees: the pieces between blank lines,
\* without surrounding whitespace and without the empty ones
ParagraphsOf(t) ==
    LET pieces == split_str(t, <<"\n", "\n">>)
    IN  SelectSeq([k \in 1..Len(pieces) |-> strip(pieces[k])],
                  LAMBDA q : q # <<>>)

\* the positions of q that hold x
Occurrences(q, x) == {k \in 1..Len(q) : q[k] = x}

\* C21: split_text_smart returns every paragraph that is longer than
\* max_chunk_size and has no sentence terminator as one unit of its own,
\* whole, followed by the terminator the chunker adds: as many such units
\* as the text has such paragraphs, whatever precedes or follows them
C21_OversizedParagraphAlone ==
    (tool = "large" /\ pc = "returned") =>
        \A j \in 1..Len(ParagraphsOf(text)) :
            LET paragraph == ParagraphsOf(text)[j]
            IN  (/\ Len(paragraph) > max_chunk_size
                 /\ \A k \in 1..Len(paragraph) :
                        paragraph[k] \notin Terminators)
                => Cardinality(Occurrences(chunks, Append(paragraph, FullStop)))
                       = Cardinality(Occurrences(ParagraphsOf(text), paragraph))

C21_Witness ==
    /\ tool = "large"
    /\ pc = "returned"
    /\ max_chunk_size = 2
    /\ text = <<"a", "\n", "\n", "b", "b", "a", "\n", "\n", "a", ".">>
    /\ chunks = <<<<"a">>, <<"b", "b", "a", FullStop>>, <<"a", ".">>>>

\* C22: in the batched merge tools there are ceil(n / batch_size) batches,
\* the batch the loops are at is not empty and has at most batch_size
\* chunks, the chunk the loops are at is the one after the chunks already
\* merged or skipped, and a merge of readable chunks of one format ends with
\* the payload of one pass over the whole list
C22_BatchesPartition ==
    (tool \in BatchedTools /\ pc \in {"merge", "chunk", "done"}) =>
        /\ (total_batches - 1) * batch_size < Len(wav_files)
        /\ Len(wav_files) <= total_batches * batch_size
        /\ batch_num < total_batches =>
               /\ Len(batch_files) >= 1
               /\ Len(batch_files) <= batch_size
               /\ batch_files = [k \in 1..Len(batch_files) |->
                                    wav_files[batch_num * batch_size + k]]
        /\ pc = "chunk" => CurPos = Len(merged) + Len(skipped) + 1
        /\ (/\ pc = "done"
            /\ skipped = <<>>) =>
               /\ merged = AllPositions
               /\ payload = ConcatAll(wav_files, Len(wav_files))

C22_Witness ==
    /\ tool = "fast"
    /\ pc = "done"
    /\ skipped = <<>>
    /\ Len(wav_files) = 101
    /\ batch_num = 3
    /\ Len(payload) = 101

\* C28: a listing that holds a name whose index part is not a decimal
\* integer never ends a merge tool with an unhandled error: the tool goes on
\* to order and merge the listing
C28_BadNameTolerated ==
    [][(pc = "scan" /\ dir_exists /\ wav_files # <<>>) => pc' = "start"]_vars

\* C23: the chunk files a converter wrote for its text units come out of
\* the discovery of a merge tool in the order of the units, whatever the
\* order of the listing, also for units from 10000 on, whose names have more
\* than four digits
C23_ProducerOrderRecovered ==
    [][pc = "scan" =>
          /\ pc' = "start"
          /\ SeqSet(wav_files') = SeqSet(wav_files)
          /\ Len(wav_files') = Len(wav_files)
          /\ \A a, b \in 1..Len(wav_files') :
                 a < b => wav_files'[a].unit < wav_files'[b].unit]_vars

C23_Witness ==
    /\ pc = "start"
    /\ Names(wav_files) = <<ProducerName(2), ProducerName(9999),
                            ProducerName(10000)>>
    /\ Len(ProducerName(10000)) = Len(ProducerName(9999)) + 1

\* C24: when merge_audio_fixed has completed, the PCM bytes in the output
\* are total_frames * channels * sample width of the first chunk
C24_BytesMatchFrames ==
    (tool = "fixed" /\ pc \in {"done", "end"}) =>
        PcmBytes(payload) = total_frames * FrameSize(params)

\* C26: the backpatch of merge_audio_fixed leaves the PCM data, the length
\* of the file and every header field other than the 4-byte fields at
\* offsets 4 and 40 as they were
C26_BackpatchFrame ==
    [][(tool = "fixed" /\ pc = "merge" /\ LoopDone) =>
          /\ payload' = payload
          /\ out_exists' = out_exists
          /\ Len(header') = Len(header)
          /\ \A k \in 1..Len(header) :
                 /\ header'[k].width = header[k].width
                 /\ FieldOffset(header, k) \notin {4, 40} =>
                        header'[k] = header[k]]_vars

C26_Witness ==
    /\ tool = "fixed"
    /\ pc = "done"
    /\ Len(payload) = 3
    /\ FieldAt(header, 4) = 36 + PcmBytes(payload)
    /\ FieldAt(header, 40) = PcmBytes(payload)
    /\ header[12] = Literal("data")

\* C27: every chunk file a merge tool removes after the merge is the file of
\* a merged chunk, never of a skipped one
C27_SkippedChunkKept ==
    [][tool \notin Converters =>
          \A name \in on_disk \ on_disk' :
              \E k \in SeqSet(merged) : wav_files[k].name = name]_vars

\* the chunks both comparisons of the parameters let through
AcceptedPositions ==
    SelectSeq(AllPositions,
              LAMBDA k : wav_files[k].ok /\ SameParams(wav_files[k]))

\* the total frame count a tool ends with: the accumulator of
\* merge_audio_fixed, getnframes() of the output of merge_wav_files
FrameCount ==
    IF tool = "fixed" THEN total_frames
    ELSE datawritten \div FrameSize(params)

\* C29: merge_audio_fixed and merge_wav_files end a merge without I/O error
\* with one and the same outcome for a catalog: the same chunks accepted,
\* the same payload and the same total frame count, the count of the frames
\* in the payload
C29_SameOutcome ==
    (tool \in {"fixed", "wav"} /\ pc = "done" /\ faults = 0) =>
        /\ merged = AcceptedPositions
        /\ payload = WholeSegments(AcceptedPositions)
        /\ FrameCount * FrameSize(params)
               = PcmBytes(WholeSegments(AcceptedPositions))

C17_DeleteOnlyAfterMerge ==
    [][/\ on_disk' # on_disk =>
              /\ pc = "done"
              /\ Len(merged) >= 1
              /\ tool \notin Converters =>
                     choice' \in {"y", "yes", "U+662F", "U+597D"}
       /\ pc' = "failed" => on_disk' = NameSet(wav_files')]_vars

\* the glob, the sort and the merge of one run of a merge tool
NextListing ==
    \/ Discover
    \/ OpenFirst
    \/ CloseFirst
    \/ OpenOutput
    \/ OpenChunk
    \/ ProcessChunk
    \/ BatchDone
    \/ Backpatch
    \/ CloseOutput

SpecListing == InitCatalog /\ [][NextListing]_vars

\* the orders in which a directory listing can return the files of S
Orderings(S) ==
    {q \in [1..Cardinality(S) -> S] :
        \A a, b \in 1..Cardinality(S) : a # b => q[a] # q[b]}

\* the file each segment of the output payload was read from
OutputSources == [k \in 1..Len(payload) |-> wav_files[payload[k].src].name]

\* C13: the output of a merge without I/O errors holds the data of the same
\* files in the same order for every order in which the directory listing
\* can return the chunk files
C13_ListingOrderIrrelevant ==
    (tool = "fixed" /\ pc = "done" /\ faults = 0) =>
        \A q \in Orderings(SeqSet(wav_files)) :
            Names(SortByKey(q)) = OutputSources

\* number of chunks the loops have finished with
Processed ==
    IF pc = "done" THEN Len(wav_files)
    ELSE IF pc \in {"merge", "chunk"} THEN Min(CurPos - 1, Len(wav_files))
    ELSE 0

\* C12: in the merge tools every chunk the loops have finished with is
\* either merged or skipped with a reason, never both and never twice, so at
\* completion merged + skipped is the number of chunks discovered
C12_EveryChunkAccounted ==
    (tool \notin Converters /\ pc \in {"merge", "chunk", "done"}) =>
        /\ SeqSet(merged) \cap SkippedPositions = {}
        /\ SeqSet(merged) \cup SkippedPositions = 1..Processed
        /\ Len(merged) + Len(skipped) = Processed
        /\ \A e \in SeqSet(skipped) : e.reason \in {"mismatch", "error"}

C12_Witness ==
    /\ tool = "fixed"
    /\ pc = "done"
    /\ Len(wav_files) = 3
    /\ Len(merged) = 1
    /\ {e.reason : e \in SeqSet(skipped)} = {"mismatch", "error"}

\* C20: in the merge tools at most one chunk file is open for reading at a
\* time: the handle of the first chunk is closed before the output is
\* opened, inside the with block of a chunk only that chunk is open, and
\* between chunks, at the backpatch and after the merge no chunk is open
C20_OneInputHandle ==
    tool \notin Converters =>
        /\ Cardinality(open_inputs) <= 1
        /\ pc = "close_first" => (open_inputs = {1} /\ ~out_exists)
        /\ pc = "chunk" => open_inputs = {CurPos}
        /\ pc \in {"open_out", "merge", "done", "failed"} => open_inputs = {}

C20_Witness ==
    /\ tool = "fixed"
    /\ pc = "chunk"
    /\ open_inputs = {3}
    /\ Len(skipped) >= 1
    /\ Len(merged) >= 1

\* C8: the payload of the output is the frame bytes of the accepted chunks,
\* in catalog order, each once, and nothing else
C8_PayloadIsConcatenation ==
    (tool \in {"fixed", "large", "advanced"} /\ pc = "done") =>
        payload = WholeSegments(merged)

\* C9: an error of the output stream ends the merge as failed
C9_OutputErrorIsFatal ==
    (tool \in {"fixed", "wav"} /\ faults > 0) => pc = "failed"

\* C10: an aborted merge of merge_audio_fixed does not leave an output file
\* that has data and both size fields still 0
C10_NoPlaceholderLeft ==
    (tool = "fixed" /\ pc = "failed" /\ out_exists /\ PcmBytes(payload) > 0) =>
        ~(FieldAt(header, 4) = 0 /\ FieldAt(header, 40) = 0)

====
